---- MODULE Spec2Model ----
(***************************************************************************)
(* Shift fanout / escalation / claim service (app/api.py, app/database.py, *)
(* app/models.py) as a state machine.  One asyncio event loop runs the     *)
(* request handlers and the escalation tasks; an action below is the code  *)
(* a coroutine runs between two suspension points (await).                 *)
(***************************************************************************)
EXTENDS Integers, Sequences, FiniteSets, Bags, TLC

\* ------------------------------------------------------------------ bounds
\* fanout requests and inbound messages received, and minutes of clock explored
MaxFanouts == 2
MaxMsgs == 2
MaxTime == 10
\* calls of the store's claim_shift_if_unclaimed
MaxClaims == 3

\* timedelta(minutes=10) of escalate_if_unfilled
EscalationMinutes == 10

\* the clock is observed every five minutes
TickDeltas == {5}

\* ------------------------------------------------------------------ values
\* Python's None for a str | None field, and for a datetime | None field
None == "None"
NoTime == -1

\* shift ids a request may name; the store holds one of them
ShiftIds == {"rn-shift", "lpn-shift"}
RoleRequired(sid) == IF sid = "rn-shift" THEN "RN" ELSE "LPN"

\* the caregivers a roster is drawn from, with their role and phone
CaregiverIds == {"alice-id", "wei-id", "eve-id"}
RoleOf(c) == IF c = "wei-id" THEN "LPN" ELSE "RN"
PhoneOf(c) == CASE c = "alice-id" -> "+15550001"
                [] c = "wei-id" -> "+15550002"
                [] c = "eve-id" -> "+15550004"
\* the rosters the fixture may put: none, one RN and one LPN, two RNs
Rosters == {{}, {"alice-id", "wei-id"}, {"alice-id", "eve-id"}}

\* phones a message may come from: known when the roster holds the caregiver
Phones == {PhoneOf(c) : c \in CaregiverIds}

\* message bodies, and the intents the classifier returns
Bodies == {"yes", "no", "maybe"}
ACCEPT == "accept"
DECLINE == "decline"
UNKNOWN == "unknown"

\* ------------------------------------------------------------------ models
\* Caregiver(id, name, role, phone)
Caregiver(c) ==
    [kind |-> "Caregiver", id |-> c, role |-> RoleOf(c), phone |-> PhoneOf(c)]

\* Shift(id, role_required) with the defaults of the model class
Shift(sid, role) ==
    [kind |-> "Shift", id |-> sid, role_required |-> role,
     claimed |-> FALSE, claimed_by |-> None, claimed_at |-> NoTime,
     fanout_started_at |-> NoTime, declined_caregiver_ids |-> <<>>]

ShiftKey(sid) == <<"shift", sid>>
CaregiverKey(c) == <<"caregiver", c>>

VARIABLES
    database,           \* InMemoryKeyValueDatabase._store: key -> Shift | Caregiver
    now,                \* datetime.now(UTC), in minutes
    fanouts,            \* bag of fanout_shift coroutines suspended on the gather
    fanout_responses,   \* bag of the responses fanout_shift has returned
    messages,           \* bag of handle_inbound_message coroutines suspended on the classifier
    message_responses,  \* bag of the responses handle_inbound_message has returned
    escalations,        \* bag of escalate_if_unfilled tasks
    sms,                \* send_sms calls made: <<shift id, caregiver id>> -> count
    calls,              \* place_phone_call calls made: <<shift id, caregiver id>> -> count
    escalation_tasks,   \* app.state's registry of escalation tasks
    claim_returns       \* bag of the calls of claim_shift_if_unclaimed that have returned

vars == <<database, now, fanouts, fanout_responses, messages, message_responses,
          escalations, sms, calls, escalation_tasks, claim_returns>>

\* ------------------------------------------------------------------ bags
Add(bag, e) == bag (+) SetToBag({e})
Remove(bag, e) == bag (-) SetToBag({e})
Replace(bag, old, new) == Add(Remove(bag, old), new)
\* how many copies the bag holds of the elements in the set
CountIn(bag, elems) == BagCardinality([e \in BagToSet(bag) \cap elems |-> bag[e]])

\* ------------------------------------------------------------------ store
\* variant: a missing shift key reads as a fresh shift
GetOrFresh(db, key) ==
    IF key \in DOMAIN db THEN db[key]
    ELSE IF key[1] = "shift" THEN Shift(key[2], RoleRequired(key[2]))
    ELSE [kind |-> None]

\* InMemoryKeyValueDatabase.get: the value, or None for a missing key
Get(db, key) == IF key \in DOMAIN db THEN db[key] ELSE [kind |-> None]

\* InMemoryKeyValueDatabase.put
Put(db, key, value) == [k \in DOMAIN db \cup {key} |-> IF k = key THEN value ELSE db[k]]

\* `not shift or not isinstance(shift, Shift)` negated
IsShift(v) == v.kind = "Shift"

\* the Caregiver values of database.all()
AllCaregivers(db) == {db[k] : k \in {k \in DOMAIN db : db[k].kind = "Caregiver"}}

\* membership in the list declined_caregiver_ids
InSeq(x, s) == \E i \in 1..Len(s) : s[i] = x

\* ------------------------------------------------------------------ intent
\* parse_shift_request_message_intent
ParseIntent(body) ==
    CASE body = "yes" -> ACCEPT
      [] body = "no" -> DECLINE
      [] OTHER -> UNKNOWN

\* ------------------------------------------------------------------ init
\* the store after the fixture has put a roster and a shift
InitialDatabase(roster, shiftIds) ==
    [k \in {CaregiverKey(c) : c \in roster} \cup {ShiftKey(s) : s \in shiftIds} |->
        IF k[1] = "caregiver" THEN Caregiver(k[2]) ELSE Shift(k[2], RoleRequired(k[2]))]

Init ==
    /\ \E roster \in Rosters, sid \in ShiftIds : database = InitialDatabase(roster, {sid})
    /\ now = 0
    /\ fanouts = EmptyBag
    /\ fanout_responses = EmptyBag
    /\ messages = EmptyBag
    /\ message_responses = EmptyBag
    /\ escalations = EmptyBag
    /\ sms = [p \in ShiftIds \X CaregiverIds |-> 0]
    /\ calls = [p \in ShiftIds \X CaregiverIds |-> 0]
    /\ escalation_tasks = {}
    /\ claim_returns = EmptyBag

\* ------------------------------------------------------------------ fanout_shift
\* variant: no role filter
QualifyingCaregiversAnyRole(db, shift) == {c.id : c \in AllCaregivers(db)}

\* caregivers whose role is the shift's role_required (ids of the list)
QualifyingCaregivers(db, shift) ==
    {c.id : c \in {c \in AllCaregivers(db) : c.role = shift.role_required}}

\* variant: no idempotency gate
FanoutGateOpen(shift) == FALSE

\* the gate: fanout already started
FanoutGate(shift) == shift.fanout_started_at # NoTime

\* variant: the shift is put back as a fresh one with the timestamp
MarkStartedFresh(shift, at) ==
    [Shift(shift.id, shift.role_required) EXCEPT !.fanout_started_at = at]

\* variant: the timestamp is never written
MarkStartedNot(shift, at) == shift

\* the shift with fanout_started_at set, as put back in the store
MarkStarted(shift, at) == [shift EXCEPT !.fanout_started_at = at]

\* the task create_task adds to the event loop
NewTask(shift_id) ==
    [pc |-> "created", shift_id |-> shift_id, target_time |-> NoTime,
     current_time |-> NoTime]

\* the response of the last return
StartedResponse(shift_id, shift, qualifying) ==
    [status_code |-> 200, shift_id |-> shift_id, role_required |-> shift.role_required,
     qualifying_caregivers |-> Cardinality(qualifying),
     fanout_started_at |-> shift.fanout_started_at]

\* POST /shifts/{shift_id}/fanout, up to the await on the gather
FanoutStart(shift_id) ==
    /\ BagCardinality(fanouts) + BagCardinality(fanout_responses) < MaxFanouts
    /\ LET shift == Get(database, ShiftKey(shift_id)) IN
       IF ~IsShift(shift) THEN
          /\ fanout_responses' = Add(fanout_responses,
                [status_code |-> 404, detail |-> "Shift not found"])
          /\ UNCHANGED <<database, fanouts, escalations>>
       ELSE IF FanoutGate(shift) THEN
          /\ fanout_responses' = Add(fanout_responses,
                [status_code |-> 200, shift_id |-> shift_id, status |-> "already_fanout",
                 fanout_started_at |-> shift.fanout_started_at])
          /\ UNCHANGED <<database, fanouts, escalations>>
       ELSE
          LET qualifying == QualifyingCaregivers(database, shift)
              started == MarkStarted(shift, now)
          IN /\ database' = Put(database, ShiftKey(shift_id), started)
             /\ IF qualifying = {}
                THEN \* gather() of nothing is already done: no suspension
                     /\ escalations' = Add(escalations, NewTask(shift_id))
                     /\ fanout_responses' = Add(fanout_responses,
                            StartedResponse(shift_id, started, qualifying))
                     /\ UNCHANGED fanouts
                ELSE /\ fanouts' = Add(fanouts, [shift_id |-> shift_id,
                            qualifying |-> qualifying, pending |-> qualifying])
                     /\ UNCHANGED <<fanout_responses, escalations>>
    /\ UNCHANGED <<now, messages, message_responses, sms, calls, escalation_tasks, claim_returns>>

\* one send_sms of the gather runs
SendSms(fanout, c) ==
    /\ BagIn(fanout, fanouts)
    /\ c \in fanout.pending
    /\ sms' = [sms EXCEPT ![<<fanout.shift_id, c>>] = @ + 1]
    /\ fanouts' = Replace(fanouts, fanout, [fanout EXCEPT !.pending = @ \ {c}])
    /\ UNCHANGED <<database, now, fanout_responses, messages, message_responses,
                   escalations, calls, escalation_tasks, claim_returns>>

\* the gather is done: fanout_shift resumes, spawns the task and returns
FanoutFinish(fanout) ==
    /\ BagIn(fanout, fanouts)
    /\ fanout.pending = {}
    /\ fanouts' = Remove(fanouts, fanout)
    /\ escalations' = Add(escalations, NewTask(fanout.shift_id))
    /\ fanout_responses' = Add(fanout_responses,
            StartedResponse(fanout.shift_id, Get(database, ShiftKey(fanout.shift_id)),
                            fanout.qualifying))
    /\ UNCHANGED <<database, now, messages, message_responses, sms, calls,
                   escalation_tasks, claim_returns>>

\* ------------------------------------------------------------------ handle_inbound_message
\* variant: the phone is not compared
CaregiverByPhoneAny(db, phone) ==
    IF AllCaregivers(db) = {} THEN [kind |-> None]
    ELSE CHOOSE c \in AllCaregivers(db) : TRUE

\* the first caregiver of database.all() with this phone (phones are unique), or None
CaregiverByPhone(db, phone) ==
    LET found == {c \in AllCaregivers(db) : c.phone = phone}
    IN IF found = {} THEN [kind |-> None] ELSE CHOOSE c \in found : TRUE

\* POST /messages/inbound, up to the await on the intent classifier
InboundStart(from_, body, shift_id) ==
    /\ BagCardinality(messages) + BagCardinality(message_responses) < MaxMsgs
    /\ LET caregiver == CaregiverByPhone(database, from_)
           shift == Get(database, ShiftKey(shift_id))
       IN IF caregiver.kind = None THEN
             /\ message_responses' = Add(message_responses,
                    [status_code |-> 404,
                     detail |-> "Caregiver not found for phone number"])
             /\ UNCHANGED messages
          ELSE IF ~IsShift(shift) THEN
             /\ message_responses' = Add(message_responses,
                    [status_code |-> 404, detail |-> "Shift not found"])
             /\ UNCHANGED messages
          ELSE
             /\ messages' = Add(messages, [body |-> body, shift_id |-> shift_id,
                                           caregiver_id |-> caregiver.id])
             /\ UNCHANGED message_responses
    /\ UNCHANGED <<database, now, fanouts, fanout_responses, escalations, sms, calls,
                   escalation_tasks, claim_returns>>

\* variant: a shift whose fanout has started counts as taken
AlreadyClaimedOrStarted(current_shift) ==
    current_shift.claimed \/ current_shift.fanout_started_at # NoTime

\* variant: the accept branch does not look at the claim
AlreadyClaimedNever(current_shift) == FALSE

\* the check of the accept branch: the shift is already claimed
AlreadyClaimed(current_shift) == current_shift.claimed

\* variant: claimed_at is not written
ClaimShiftNoTimestamp(current_shift, caregiver_id, at) ==
    [current_shift EXCEPT !.claimed = TRUE, !.claimed_by = caregiver_id]

\* variant: the claimed flag is not written
ClaimShiftNoFlag(current_shift, caregiver_id, at) ==
    [current_shift EXCEPT !.claimed_by = caregiver_id, !.claimed_at = at]

\* the accept branch's claim of the shift
ClaimShift(current_shift, caregiver_id, at) ==
    [current_shift EXCEPT !.claimed = TRUE, !.claimed_by = caregiver_id, !.claimed_at = at]

\* variant: the id is appended without the membership test
DeclineShiftAlways(current_shift, caregiver_id) ==
    [current_shift EXCEPT !.declined_caregiver_ids = Append(@, caregiver_id)]

\* variant: the list is replaced by the decliner alone
DeclineShiftReplace(current_shift, caregiver_id) ==
    [current_shift EXCEPT !.declined_caregiver_ids = <<caregiver_id>>]

\* variant: a decline on a claimed shift is not recorded
DeclineShiftUnlessClaimed(current_shift, caregiver_id) ==
    IF current_shift.claimed \/ InSeq(caregiver_id, current_shift.declined_caregiver_ids)
    THEN current_shift
    ELSE [current_shift EXCEPT !.declined_caregiver_ids = Append(@, caregiver_id)]

\* variant: whatever is not an accept is tracked as a decline
IsDeclineOrUnknown(intent) == intent # ACCEPT

\* the test of the decline branch
IsDecline(intent) == intent = DECLINE

\* the decline branch's update of the shift
DeclineShift(current_shift, caregiver_id) ==
    IF InSeq(caregiver_id, current_shift.declined_caregiver_ids)
    THEN current_shift
    ELSE [current_shift EXCEPT !.declined_caregiver_ids = Append(@, caregiver_id)]

\* the classifier has answered: handle_inbound_message runs to its return
InboundResume(message) ==
    /\ BagIn(message, messages)
    /\ messages' = Remove(messages, message)
    /\ LET shift_id == message.shift_id
           caregiver_id == message.caregiver_id
           intent == ParseIntent(message.body)
           current_shift == Get(database, ShiftKey(shift_id))
           claimed == ClaimShift(current_shift, caregiver_id, now)
       IN IF ~IsShift(current_shift) THEN
             /\ message_responses' = Add(message_responses,
                    [status_code |-> 404, detail |-> "Shift not found"])
             /\ UNCHANGED database
          ELSE IF intent = ACCEPT /\ AlreadyClaimed(current_shift) THEN
             /\ message_responses' = Add(message_responses,
                    [status_code |-> 200, status |-> "already_claimed",
                     shift_id |-> shift_id])
             /\ UNCHANGED database
          ELSE IF intent = ACCEPT THEN
             /\ database' = Put(database, ShiftKey(shift_id), claimed)
             /\ message_responses' = Add(message_responses,
                    [status_code |-> 200, status |-> "claimed", shift_id |-> shift_id,
                     caregiver_id |-> caregiver_id, claimed_at |-> claimed.claimed_at])
          ELSE
             /\ database' = IF IsDecline(intent)
                            THEN Put(database, ShiftKey(shift_id),
                                     DeclineShift(current_shift, caregiver_id))
                            ELSE database
             /\ message_responses' = Add(message_responses,
                    [status_code |-> 200, status |-> "not_claimed", shift_id |-> shift_id,
                     intent |-> intent])
    /\ UNCHANGED <<now, fanouts, fanout_responses, escalations, sms, calls,
                   escalation_tasks, claim_returns>>

\* ------------------------------------------------------------------ escalate_if_unfilled
\* variant: the ten minutes are not added
TargetTimeNoDelay(fanout_started_at) == fanout_started_at

\* the deadline of the task
TargetTime(fanout_started_at) == fanout_started_at + EscalationMinutes

\* the deadline test of the loop
DeadlineReached(current_time, target_time) == current_time >= target_time

\* variant: the loop does not look at the time
PollOutcomeNoDeadline(db, shift_id, current_time, target_time) ==
    LET shift == Get(db, ShiftKey(shift_id))
    IN IF ~IsShift(shift) THEN "returned"
       ELSE IF shift.claimed THEN "returned"
       ELSE "sleeping"

\* variant: the loop does not look at the claim
PollOutcomeIgnoringClaim(db, shift_id, current_time, target_time) ==
    LET shift == Get(db, ShiftKey(shift_id))
    IN IF ~IsShift(shift) THEN "returned"
       ELSE IF current_time >= target_time THEN "fired"
       ELSE "sleeping"

\* one iteration of the `while True` loop, up to the sleep or the exit:
\* "returned" on a missing or claimed shift, "fired" at the deadline, else asleep
PollOutcome(db, shift_id, current_time, target_time) ==
    LET shift == Get(db, ShiftKey(shift_id))
    IN IF ~IsShift(shift) THEN "returned"
       ELSE IF shift.claimed THEN "returned"
       ELSE IF DeadlineReached(current_time, target_time) THEN "fired"
       ELSE "sleeping"

\* the task starts: the checks before the loop, and the loop's first iteration
EscalationStart(task) ==
    /\ BagIn(task, escalations)
    /\ task.pc = "created"
    /\ LET shift == Get(database, ShiftKey(task.shift_id))
       IN escalations' = Replace(escalations, task,
            IF ~IsShift(shift) THEN [task EXCEPT !.pc = "returned"]
            ELSE IF shift.fanout_started_at = NoTime THEN [task EXCEPT !.pc = "returned"]
            ELSE [task EXCEPT !.target_time = TargetTime(shift.fanout_started_at),
                              !.current_time = now,
                              !.pc = PollOutcome(database, task.shift_id, now,
                                                 TargetTime(shift.fanout_started_at))])
    /\ UNCHANGED <<database, now, fanouts, fanout_responses, messages, message_responses,
                   sms, calls, escalation_tasks, claim_returns>>

\* the sleep is over: the next iteration of the loop
EscalationPoll(task) ==
    /\ BagIn(task, escalations)
    /\ task.pc = "sleeping"
    /\ escalations' = Replace(escalations, task,
            [task EXCEPT !.current_time = now,
                         !.pc = PollOutcome(database, task.shift_id, now,
                                            task.target_time)])
    /\ UNCHANGED <<database, now, fanouts, fanout_responses, messages, message_responses,
                   sms, calls, escalation_tasks, claim_returns>>

\* ------------------------------------------------------------------ claim_shift_if_unclaimed
\* hasattr(value, name)
HasAttr(value, name) == name \in DOMAIN value

\* variant: the claimed flag is not checked
ClaimShiftIfUnclaimedNoCheck(store, key, claimer_id, claimed_at) ==
    LET value == Get(store, key)
    IN IF value.kind = None THEN [store |-> store, result |-> FALSE]
       ELSE IF HasAttr(value, "claimed")
       THEN [store |-> Put(store, key,
                [value EXCEPT !.claimed = TRUE, !.claimed_by = claimer_id,
                              !.claimed_at = claimed_at]),
             result |-> TRUE]
       ELSE [store |-> store, result |-> FALSE]

\* InMemoryKeyValueDatabase.claim_shift_if_unclaimed: the store it leaves and the
\* bool it returns
ClaimShiftIfUnclaimed(store, key, claimer_id, claimed_at) ==
    LET value == Get(store, key)
    IN IF value.kind = None THEN [store |-> store, result |-> FALSE]
       ELSE IF HasAttr(value, "claimed") /\ ~value.claimed
       THEN [store |-> Put(store, key,
                [value EXCEPT !.claimed = TRUE,
                              !.claimed_by = IF HasAttr(value, "claimed_by")
                                             THEN claimer_id ELSE @,
                              !.claimed_at = IF HasAttr(value, "claimed_at")
                                             THEN claimed_at ELSE @]),
             result |-> TRUE]
       ELSE [store |-> store, result |-> FALSE]

\* keys a caller may pass: a shift's, stored or not, and a caregiver's
ClaimKeys == {ShiftKey(s) : s \in ShiftIds} \cup {CaregiverKey("alice-id")}

\* one caller runs claim_shift_if_unclaimed: the method has no suspension point
StoreClaim(key, claimer_id) ==
    /\ BagCardinality(claim_returns) < MaxClaims
    /\ LET r == ClaimShiftIfUnclaimed(database, key, claimer_id, now)
       IN /\ database' = r.store
          /\ claim_returns' = Add(claim_returns,
                [key |-> key, claimer_id |-> claimer_id, claimed_at |-> now,
                 result |-> r.result])
    /\ UNCHANGED <<now, fanouts, fanout_responses, messages, message_responses,
                   escalations, sms, calls, escalation_tasks>>

\* ------------------------------------------------------------------ clock
\* time passes
Tick(delta) ==
    /\ now + delta <= MaxTime
    /\ now' = now + delta
    /\ UNCHANGED <<database, fanouts, fanout_responses, messages, message_responses,
                   escalations, sms, calls, escalation_tasks, claim_returns>>

Next ==
    \/ \E s \in ShiftIds : FanoutStart(s)
    \/ \E fanout \in BagToSet(fanouts), c \in CaregiverIds : SendSms(fanout, c)
    \/ \E fanout \in BagToSet(fanouts) : FanoutFinish(fanout)
    \/ \E p \in Phones, b \in Bodies, s \in ShiftIds : InboundStart(p, b, s)
    \/ \E message \in BagToSet(messages) : InboundResume(message)
    \/ \E task \in BagToSet(escalations) : EscalationStart(task)
    \/ \E task \in BagToSet(escalations) : EscalationPoll(task)
    \/ \E d \in TickDeltas : Tick(d)

Spec == Init /\ [][Next]_vars

\* the event loop runs a task that is ready, and the clock advances
EscalationStep ==
    \E task \in BagToSet(escalations) : EscalationStart(task) \/ EscalationPoll(task)
ClockStep == \E d \in TickDeltas : Tick(d)

\* the program with its tasks scheduled: asyncio runs every ready task, and the
\* 0.1 s sleep of the loop's poll always ends
SpecLive == Init /\ [][Next]_vars /\ WF_vars(EscalationStep) /\ WF_vars(ClockStep)

\* the store after the fixture has put a roster and both shifts
InitTwoShifts ==
    /\ \E roster \in Rosters : database = InitialDatabase(roster, ShiftIds)
    /\ now = 0
    /\ fanouts = EmptyBag
    /\ fanout_responses = EmptyBag
    /\ messages = EmptyBag
    /\ message_responses = EmptyBag
    /\ escalations = EmptyBag
    /\ sms = [p \in ShiftIds \X CaregiverIds |-> 0]
    /\ calls = [p \in ShiftIds \X CaregiverIds |-> 0]
    /\ escalation_tasks = {}
    /\ claim_returns = EmptyBag

\* the program on a store that holds both shifts
SpecTwoShifts == InitTwoShifts /\ [][Next]_vars

\* the store alone: callers of claim_shift_if_unclaimed and the clock
NextStore ==
    \/ \E key \in ClaimKeys, c \in CaregiverIds : StoreClaim(key, c)
    \/ \E d \in TickDeltas : Tick(d)

SpecStore == Init /\ [][NextStore]_vars

\* ------------------------------------------------------------------ reading the state
StoredShifts == {sid \in ShiftIds : ShiftKey(sid) \in DOMAIN database}
ShiftOf(sid) == database[ShiftKey(sid)]
Roster == {c \in CaregiverIds : CaregiverKey(c) \in DOMAIN database}

\* the "status" of a response, None when the response has no such key
Status(resp) == IF "status" \in DOMAIN resp THEN resp.status ELSE None

\* a fanout response of the path that passed the gate
IsStarted(resp) == resp.status_code = 200 /\ Status(resp) # "already_fanout"

\* message responses for a shift with a status
MessageResponses(sid, status) ==
    {r \in BagToSet(message_responses) :
        r.status_code = 200 /\ r.shift_id = sid /\ r.status = status}
NumMessageResponses(sid, status) ==
    CountIn(message_responses, MessageResponses(sid, status))

\* fanout invocations on a shift that passed the gate: suspended or returned
StartedResponses(sid) ==
    {r \in BagToSet(fanout_responses) : IsStarted(r) /\ r.shift_id = sid}
AlreadyFanoutResponses(sid) ==
    {r \in BagToSet(fanout_responses) : Status(r) = "already_fanout" /\ r.shift_id = sid}
NumPassedGate(sid) ==
    CountIn(fanouts, {f \in BagToSet(fanouts) : f.shift_id = sid})
        + CountIn(fanout_responses, StartedResponses(sid))
NumAlreadyFanout(sid) == CountIn(fanout_responses, AlreadyFanoutResponses(sid))

\* the caregivers of the store whose role the shift requires
Matching(sid) == {c \in Roster : database[CaregiverKey(c)].role = ShiftOf(sid).role_required}

\* the deadline of a shift whose fanout has started
Deadline(sid) == ShiftOf(sid).fanout_started_at + EscalationMinutes

TasksOf(sid) == {t \in BagToSet(escalations) : t.shift_id = sid}
NoCalls(sid) == \A c \in CaregiverIds : calls[<<sid, c>>] = 0

\* ------------------------------------------------------------------ C1
\* C1: of the accept handlers that have returned for a shift, exactly one returned
\* `claimed` and every other `already_claimed` (none `not_claimed`), and the stored
\* shift's claimed_by is the caregiver of the `claimed` response.
C1_SingleWinner ==
    /\ \A r \in BagToSet(message_responses) :
          Status(r) = "not_claimed" => r.intent # ACCEPT
    /\ \A sid \in StoredShifts :
          /\ NumMessageResponses(sid, "claimed")
               + NumMessageResponses(sid, "already_claimed") > 0
             => NumMessageResponses(sid, "claimed") = 1
          /\ \A r \in MessageResponses(sid, "claimed") :
                ShiftOf(sid).claimed /\ ShiftOf(sid).claimed_by = r.caregiver_id

\* two accepts for one shift have returned: one claimed, one already_claimed
C1_Witness ==
    \E sid \in StoredShifts :
        /\ NumMessageResponses(sid, "claimed") = 1
        /\ NumMessageResponses(sid, "already_claimed") = 1
        /\ ShiftOf(sid).claimed_by \in Roster

\* ------------------------------------------------------------------ C2
\* C2: for every shift, at most one fanout_shift invocation passes the gate, every
\* other invocation on it returns already_fanout, and no caregiver is sent more than
\* one text for it.
C2_OneBurst ==
    \A sid \in ShiftIds :
        /\ NumPassedGate(sid) <= 1
        /\ NumAlreadyFanout(sid) > 0 => NumPassedGate(sid) = 1
        /\ \A c \in CaregiverIds : sms[<<sid, c>>] <= 1

\* a second invocation has returned already_fanout while the first is still
\* suspended on its sends
C2_Witness ==
    \E f \in BagToSet(fanouts) :
        /\ f.pending # {}
        /\ NumAlreadyFanout(f.shift_id) = 1

\* ------------------------------------------------------------------ C3
\* C3: once a fanout of a shift has returned through the started path, and while
\* its escalation task has not ended, the task registry holds exactly one entry.
C3_OneRegisteredTask ==
    \A sid \in StoredShifts :
        (/\ StartedResponses(sid) # {}
         /\ \E t \in TasksOf(sid) : t.pc \in {"created", "sleeping"})
        => Cardinality(escalation_tasks) = 1

\* ------------------------------------------------------------------ C4
\* C4: a shift claimed before fanout_started_at + 10 minutes never has a voice call
\* placed for it, and its escalation task never reaches the point of placing them.
C4_ClaimSuppressesEscalation ==
    \A sid \in StoredShifts :
        (/\ ShiftOf(sid).claimed
         /\ ShiftOf(sid).fanout_started_at # NoTime
         /\ ShiftOf(sid).claimed_at < Deadline(sid))
        => /\ NoCalls(sid)
           /\ \A t \in TasksOf(sid) : t.pc # "fired"

\* claimed five minutes into the window; the clock is at the deadline and the task
\* has ended without firing
C4_Witness ==
    \E sid \in StoredShifts :
        /\ ShiftOf(sid).claimed
        /\ ShiftOf(sid).fanout_started_at # NoTime
        /\ ShiftOf(sid).fanout_started_at < ShiftOf(sid).claimed_at
        /\ ShiftOf(sid).claimed_at < Deadline(sid)
        /\ now >= Deadline(sid)
        /\ \E t \in TasksOf(sid) : t.pc = "returned" /\ t.current_time >= Deadline(sid)

\* ------------------------------------------------------------------ C5
\* the round-2 audience as read from the store
Audience(sid) == {c \in Matching(sid) : ~InSeq(c, ShiftOf(sid).declined_caregiver_ids)}

\* a task reaches the deadline with the shift unclaimed in this step
Fires(sid) ==
    \E t \in BagToSet(escalations') :
        /\ t.shift_id = sid
        /\ t.pc = "fired"
        /\ CopiesIn(t, escalations') > CopiesIn(t, escalations)

\* C5: the step in which the escalation task finds the deadline reached and the shift
\* unclaimed places one voice call to each caregiver of the audience read from the
\* store in that step, and to nobody else.
C5_AudienceCalled ==
    [][\A sid \in StoredShifts :
          Fires(sid) =>
            \A c \in CaregiverIds :
                calls'[<<sid, c>>] =
                    calls[<<sid, c>>] + (IF c \in Audience(sid) THEN 1 ELSE 0)]_vars

\* ------------------------------------------------------------------ C6
\* C6: a voice call has been placed for a shift, or its escalation task has reached
\* the point of placing them, only if the poll that did so read a time no earlier
\* than the persisted fanout_started_at + 10 minutes.
C6_NoCallBeforeDeadline ==
    \A sid \in StoredShifts :
        /\ ~NoCalls(sid) => (ShiftOf(sid).fanout_started_at # NoTime /\ now >= Deadline(sid))
        /\ \A t \in TasksOf(sid) :
              t.pc = "fired" =>
                /\ ShiftOf(sid).fanout_started_at # NoTime
                /\ t.current_time >= Deadline(sid)
                /\ now >= Deadline(sid)

\* the task polled five minutes into the window and went back to sleep
C6_Witness ==
    \E sid \in StoredShifts :
        \E t \in TasksOf(sid) :
            /\ t.pc = "sleeping"
            /\ t.current_time > ShiftOf(sid).fanout_started_at
            /\ t.current_time < Deadline(sid)
            /\ NoCalls(sid)

\* ------------------------------------------------------------------ C7
\* C7: a fanout that passed the gate has sent, when it returns, exactly one text to
\* each caregiver of the store whose role the shift requires and none to anyone
\* else, and returns the size of that set as qualifying_caregivers.
C7_RoleMatchedBurst ==
    \A r \in BagToSet(fanout_responses) :
        IsStarted(r) =>
            /\ r.qualifying_caregivers = Cardinality(Matching(r.shift_id))
            /\ \A c \in CaregiverIds :
                  sms[<<r.shift_id, c>>] = (IF c \in Matching(r.shift_id) THEN 1 ELSE 0)

\* a fanout has returned after texting one caregiver and skipping another
C7_Witness ==
    \E r \in BagToSet(fanout_responses) :
        /\ IsStarted(r)
        /\ r.qualifying_caregivers = 1
        /\ \E c \in Roster : c \notin Matching(r.shift_id) /\ sms[<<r.shift_id, c>>] = 0
        /\ \E c \in Roster : sms[<<r.shift_id, c>>] = 1

\* ------------------------------------------------------------------ C8
\* C8: in every state, for every stored shift, claimed is true iff claimed_by is set
\* iff claimed_at is set.
C8_ClaimFieldsAgree ==
    \A sid \in StoredShifts :
        /\ ShiftOf(sid).claimed <=> ShiftOf(sid).claimed_by # None
        /\ ShiftOf(sid).claimed <=> ShiftOf(sid).claimed_at # NoTime

\* a shift has been claimed through an accept
C8_Witness ==
    \E sid \in StoredShifts :
        /\ ShiftOf(sid).claimed
        /\ ShiftOf(sid).claimed_by \in Roster
        /\ ShiftOf(sid).claimed_at = now
        /\ NumMessageResponses(sid, "claimed") = 1

\* ------------------------------------------------------------------ C9
\* C9: once claimed_by is set, no step changes claimed_by or claimed_at or resets
\* claimed.
C9_ClaimIsFinal ==
    [][\A sid \in StoredShifts :
          ShiftOf(sid).claimed_by # None =>
            /\ ShiftOf(sid)'.claimed
            /\ ShiftOf(sid)'.claimed_by = ShiftOf(sid).claimed_by
            /\ ShiftOf(sid)'.claimed_at = ShiftOf(sid).claimed_at]_vars

\* after the claim, and at a later time: a fanout has run, a decline has been
\* recorded and the escalation task has exited
C9_Witness ==
    \E sid \in StoredShifts :
        /\ ShiftOf(sid).claimed
        /\ ShiftOf(sid).claimed_at < ShiftOf(sid).fanout_started_at
        /\ ShiftOf(sid).declined_caregiver_ids # <<>>
        /\ \E t \in TasksOf(sid) : t.pc = "returned"

\* ------------------------------------------------------------------ C10
\* C10: once fanout_started_at is non-null, no step changes it.
C10_FanoutStartedOnce ==
    [][\A sid \in StoredShifts :
          ShiftOf(sid).fanout_started_at # NoTime =>
            ShiftOf(sid)'.fanout_started_at = ShiftOf(sid).fanout_started_at]_vars

\* the clock has moved on since the fanout, the shift has been claimed, and a
\* repeated fanout has returned already_fanout with the stored timestamp
C10_Witness ==
    \E sid \in StoredShifts :
        /\ ShiftOf(sid).fanout_started_at # NoTime
        /\ ShiftOf(sid).fanout_started_at < now
        /\ ShiftOf(sid).claimed
        /\ NumAlreadyFanout(sid) = 1
        /\ \A r \in BagToSet(fanout_responses) :
              r.status_code = 200 => r.fanout_started_at = ShiftOf(sid).fanout_started_at

\* ------------------------------------------------------------------ C11
\* returned calls of claim_shift_if_unclaimed on a key with a result
ClaimReturns(key, result) ==
    {r \in BagToSet(claim_returns) : r.key = key /\ r.result = result}

\* C11: of the calls of claim_shift_if_unclaimed that have returned for a key holding
\* a shift, exactly one returned True and every other False, and the stored
\* claimed_by and claimed_at are the arguments of the call that returned True.
C11_OneClaimSucceeds ==
    \A sid \in StoredShifts :
        LET key == ShiftKey(sid) IN
        (ClaimReturns(key, TRUE) \cup ClaimReturns(key, FALSE) # {}) =>
            /\ CountIn(claim_returns, ClaimReturns(key, TRUE)) = 1
            /\ \A r \in ClaimReturns(key, TRUE) :
                  /\ ShiftOf(sid).claimed
                  /\ ShiftOf(sid).claimed_by = r.claimer_id
                  /\ ShiftOf(sid).claimed_at = r.claimed_at

\* three callers on one shift key, the later ones with another id at a later time:
\* one True, two False, and the store holds the first caller's id and time
C11_Witness ==
    \E sid \in StoredShifts :
        /\ CountIn(claim_returns, ClaimReturns(ShiftKey(sid), TRUE)) = 1
        /\ CountIn(claim_returns, ClaimReturns(ShiftKey(sid), FALSE)) = 2
        /\ \E r \in ClaimReturns(ShiftKey(sid), FALSE) :
              /\ r.claimer_id # ShiftOf(sid).claimed_by
              /\ r.claimed_at > ShiftOf(sid).claimed_at

\* ------------------------------------------------------------------ C12
Declined(sid) == ShiftOf(sid).declined_caregiver_ids

\* the DECLINE messages handled for a shift
DeclineResponses(sid) == {r \in MessageResponses(sid, "not_claimed") : r.intent = DECLINE}
NumDeclineResponses(sid) == CountIn(message_responses, DeclineResponses(sid))

\* C12: declined_caregiver_ids never holds an id twice: however many DECLINE messages
\* have been handled for a shift, the list has one entry per caregiver who declined
\* (at least one once a decline was handled, never more than the declines handled).
C12_DeclineOnce ==
    \A sid \in StoredShifts :
        /\ \A i, j \in 1..Len(Declined(sid)) : i # j => Declined(sid)[i] # Declined(sid)[j]
        /\ NumDeclineResponses(sid) > 0 => Len(Declined(sid)) >= 1
        /\ Len(Declined(sid)) <= NumDeclineResponses(sid)
        /\ \A i \in 1..Len(Declined(sid)) : Declined(sid)[i] \in Roster

\* two DECLINE messages have been handled for a shift and its list has one entry:
\* both came from the same caregiver
C12_Witness ==
    \E sid \in StoredShifts :
        /\ NumDeclineResponses(sid) = 2
        /\ Len(Declined(sid)) = 1

\* ------------------------------------------------------------------ C13
\* C13: every response of a fanout_shift invocation that passed the gate has status
\* `started` and carries role_required, the qualifying caregiver count and
\* fanout_started_at; already_fanout is returned only by repeated calls.
C13_FirstFanoutStarted ==
    /\ \A r \in BagToSet(fanout_responses) :
          IsStarted(r) =>
            /\ Status(r) = "started"
            /\ r.role_required = RoleRequired(r.shift_id)
            /\ r.qualifying_caregivers = Cardinality(Matching(r.shift_id))
            /\ r.fanout_started_at = ShiftOf(r.shift_id).fanout_started_at
    /\ \A sid \in ShiftIds : NumAlreadyFanout(sid) > 0 => NumPassedGate(sid) = 1

\* ------------------------------------------------------------------ C14
\* C14: a fanout_shift call on a shift whose fanout_started_at is set returns
\* already_fanout with the stored timestamp and changes nothing else: no text, no
\* task, no suspended invocation, the store as it was.
C14_AlreadyFanoutNoEffect ==
    [][\A s \in StoredShifts :
          (ShiftOf(s).fanout_started_at # NoTime /\ FanoutStart(s)) =>
            /\ fanout_responses' = Add(fanout_responses,
                  [status_code |-> 200, shift_id |-> s, status |-> "already_fanout",
                   fanout_started_at |-> ShiftOf(s).fanout_started_at])
            /\ database' = database
            /\ sms' = sms
            /\ calls' = calls
            /\ fanouts' = fanouts
            /\ escalations' = escalations
            /\ escalation_tasks' = escalation_tasks]_vars

\* a repeated call has returned already_fanout at a later time than the first, which
\* had returned: the texts and the single task are those of the first call
C14_Witness ==
    \E sid \in StoredShifts :
        /\ StartedResponses(sid) # {}
        /\ NumAlreadyFanout(sid) = 1
        /\ \A r \in AlreadyFanoutResponses(sid) :
              r.fanout_started_at = ShiftOf(sid).fanout_started_at
        /\ ShiftOf(sid).fanout_started_at < now
        /\ Matching(sid) # {}
        /\ \A c \in Matching(sid) : sms[<<sid, c>>] = 1
        /\ CountIn(escalations, TasksOf(sid)) = 1

\* ------------------------------------------------------------------ C15
\* C15: the step in which handle_inbound_message resumes with an ACCEPT on a shift
\* that is already claimed returns already_claimed and changes nothing else: every
\* store entry, and so every field of the shift, is as before.
C15_AlreadyClaimedNoEffect ==
    [][\A m \in BagToSet(messages) :
          (/\ ParseIntent(m.body) = ACCEPT
           /\ m.shift_id \in StoredShifts
           /\ ShiftOf(m.shift_id).claimed
           /\ InboundResume(m)) =>
            /\ message_responses' = Add(message_responses,
                  [status_code |-> 200, status |-> "already_claimed",
                   shift_id |-> m.shift_id])
            /\ database' = database
            /\ escalations' = escalations
            /\ sms' = sms
            /\ calls' = calls]_vars

\* an accept arriving after the fanout and later than the claim was turned down: the
\* shift still holds the first claim's time
C15_Witness ==
    \E sid \in StoredShifts :
        /\ NumMessageResponses(sid, "already_claimed") = 1
        /\ ShiftOf(sid).claimed
        /\ ShiftOf(sid).claimed_at < now
        /\ ShiftOf(sid).fanout_started_at # NoTime
        /\ messages = EmptyBag

\* ------------------------------------------------------------------ C16
NotFound(detail) == [status_code |-> 404, detail |-> detail]

\* C16: a fanout_shift call for a shift id the store does not hold returns 404
\* "Shift not found" and changes nothing else: no text, no task, the store as it was.
C16_FanoutNotFound ==
    [][\A s \in ShiftIds \ StoredShifts :
          FanoutStart(s) =>
            /\ fanout_responses' = Add(fanout_responses, NotFound("Shift not found"))
            /\ database' = database
            /\ sms' = sms
            /\ calls' = calls
            /\ fanouts' = fanouts
            /\ escalations' = escalations
            /\ escalation_tasks' = escalation_tasks]_vars

\* a fanout for the unknown shift id has returned 404 beside a started fanout of the
\* stored shift: the texts and the task are those of the stored shift alone
C16_Witness ==
    /\ BagIn(NotFound("Shift not found"), fanout_responses)
    /\ \E sid \in StoredShifts :
          /\ StartedResponses(sid) # {}
          /\ Matching(sid) # {}
          /\ BagCardinality(escalations) = 1
    /\ \A s \in ShiftIds \ StoredShifts : \A c \in CaregiverIds : sms[<<s, c>>] = 0
    /\ message_responses = EmptyBag

\* ------------------------------------------------------------------ C17
\* the store holds a caregiver with this phone
KnownPhone(phone) == \E c \in Roster : database[CaregiverKey(c)].phone = phone

\* C17: an inbound message from a phone no stored caregiver has returns 404
\* "Caregiver not found for phone number", and one from a known phone for a shift id
\* the store does not hold returns 404 "Shift not found", whatever the body; the
\* step that returns it neither changes the store nor leaves a handler suspended.
C17_InboundNotFound ==
    [][LET unknown == {p \in Phones : ~KnownPhone(p)}
           missing == ShiftIds \ StoredShifts
           Returns(detail) ==
               /\ message_responses' = Add(message_responses, NotFound(detail))
               /\ UNCHANGED <<database, messages, escalations, sms, calls>>
       IN \* a step that is no InboundStart at all is outside the claim
          (/\ UNCHANGED <<now, fanout_responses, escalations, fanouts, sms>>
           /\ messages' = messages \/ message_responses' = message_responses) =>
            /\ \/ Returns("Caregiver not found for phone number")
               \/ \A p \in unknown, s \in ShiftIds, b \in Bodies : ~InboundStart(p, b, s)
            /\ \/ Returns("Shift not found")
               \/ \A p \in Phones \ unknown, s \in missing, b \in Bodies :
                     ~InboundStart(p, b, s)]_vars

\* both errors have been returned, in a store that holds caregivers and a shift
\* whose fanout has started
C17_Witness ==
    /\ BagIn(NotFound("Caregiver not found for phone number"), message_responses)
    /\ BagIn(NotFound("Shift not found"), message_responses)
    /\ Roster # {}
    /\ \E sid \in StoredShifts :
          /\ ShiftOf(sid).fanout_started_at # NoTime
          /\ ~ShiftOf(sid).claimed
          /\ Declined(sid) = <<>>

\* ------------------------------------------------------------------ C18
\* an escalation task that has not ended
Pending(t) == t.pc \in {"created", "sleeping"}

\* C18: the step in which an accept claims a shift whose escalation task is pending
\* finds that task in the task registry and cancels it: after the step the task is
\* no longer pending.
C18_ClaimCancelsTask ==
    [][\A sid \in StoredShifts :
          (/\ ~ShiftOf(sid).claimed
           /\ ShiftOf(sid)'.claimed
           /\ \E t \in TasksOf(sid) : Pending(t)) =>
            /\ escalation_tasks # {}
            /\ \A t \in BagToSet(escalations') : t.shift_id = sid => ~Pending(t)]_vars

\* ------------------------------------------------------------------ C19
\* the fanout_shift invocations suspended on their sends for a shift
InFlight(sid) == {f \in BagToSet(fanouts) : f.shift_id = sid}

\* C19: in every state where a text for a shift has been sent or a fanout_shift
\* invocation is suspended on its sends, the store holds the shift with a non-null
\* fanout_started_at, no later than the current time.
C19_StartedBeforeSend ==
    \A sid \in ShiftIds :
        ((\E c \in CaregiverIds : sms[<<sid, c>>] > 0) \/ InFlight(sid) # {}) =>
            /\ sid \in StoredShifts
            /\ ShiftOf(sid).fanout_started_at # NoTime
            /\ ShiftOf(sid).fanout_started_at <= now

\* the invocation is suspended with no text sent yet and two still to send, and the
\* timestamp is already stored
C19_Witness ==
    \E sid \in StoredShifts :
        \E f \in InFlight(sid) :
            /\ Cardinality(f.pending) = 2
            /\ \A c \in CaregiverIds : sms[<<sid, c>>] = 0
            /\ ShiftOf(sid).fanout_started_at = now

\* ------------------------------------------------------------------ C20
\* the ids in a list
SeqToSet(seq) == {seq[i] : i \in 1..Len(seq)}

\* C20: no step removes an id from a shift's declined_caregiver_ids: the ids after
\* the step include the ids before it, and the list before is a prefix of the list
\* after.
C20_DeclinedOnlyGrows ==
    [][\A sid \in StoredShifts :
          /\ SeqToSet(Declined(sid)) \subseteq SeqToSet(ShiftOf(sid)'.declined_caregiver_ids)
          /\ Len(Declined(sid)) <= Len(ShiftOf(sid)'.declined_caregiver_ids)
          /\ SubSeq(ShiftOf(sid)'.declined_caregiver_ids, 1, Len(Declined(sid)))
                = Declined(sid)]_vars

\* two caregivers have declined one shift, one after the other
C20_Witness ==
    \E sid \in StoredShifts :
        /\ Len(Declined(sid)) = 2
        /\ Declined(sid)[1] # Declined(sid)[2]
        /\ NumDeclineResponses(sid) = 2

\* ------------------------------------------------------------------ C21
\* the response of the last return of handle_inbound_message
NotClaimed(shift_id, intent) ==
    [status_code |-> 200, status |-> "not_claimed", shift_id |-> shift_id,
     intent |-> intent]

\* C21: the step in which handle_inbound_message resumes with a DECLINE returns
\* not_claimed and leaves the caregiver's id in declined_caregiver_ids, whether or
\* not the shift is claimed; it changes no other field of the shift, no other store
\* entry, and no escalation task.
C21_DeclineOnlyDeclines ==
    [][\A m \in BagToSet(messages) :
          (/\ ParseIntent(m.body) = DECLINE
           /\ m.shift_id \in StoredShifts
           /\ InboundResume(m)) =>
            /\ message_responses' = Add(message_responses, NotClaimed(m.shift_id, DECLINE))
            /\ InSeq(m.caregiver_id, ShiftOf(m.shift_id)'.declined_caregiver_ids)
            /\ database' = [database EXCEPT ![ShiftKey(m.shift_id)].declined_caregiver_ids =
                                ShiftOf(m.shift_id)'.declined_caregiver_ids]
            /\ escalations' = escalations
            /\ escalation_tasks' = escalation_tasks
            /\ sms' = sms
            /\ calls' = calls]_vars

\* a claimed shift holds the decline of a caregiver other than the claimer, and its
\* escalation task is still pending
C21_Witness ==
    \E sid \in StoredShifts :
        /\ ShiftOf(sid).claimed
        /\ Len(Declined(sid)) = 1
        /\ Declined(sid)[1] # ShiftOf(sid).claimed_by
        /\ NumDeclineResponses(sid) = 1
        /\ \E t \in TasksOf(sid) : Pending(t)

\* ------------------------------------------------------------------ C22
\* C22: the step in which handle_inbound_message resumes with a message classified
\* UNKNOWN returns not_claimed with intent unknown and leaves the whole store, the
\* tasks and the notifications as they were.
C22_UnknownNoEffect ==
    [][\A m \in BagToSet(messages) :
          (/\ ParseIntent(m.body) = UNKNOWN
           /\ m.shift_id \in StoredShifts
           /\ InboundResume(m)) =>
            /\ message_responses' = Add(message_responses, NotClaimed(m.shift_id, UNKNOWN))
            /\ database' = database
            /\ escalations' = escalations
            /\ sms' = sms
            /\ calls' = calls]_vars

\* the only message handled for a shift whose fanout has started was classified
\* UNKNOWN: the shift is unclaimed and holds no decline
C22_Witness ==
    \E sid \in StoredShifts :
        /\ BagIn(NotClaimed(sid, UNKNOWN), message_responses)
        /\ BagCardinality(message_responses) = 1
        /\ messages = EmptyBag
        /\ ShiftOf(sid).fanout_started_at # NoTime
        /\ ~ShiftOf(sid).claimed
        /\ Declined(sid) = <<>>

\* ------------------------------------------------------------------ C23
\* the deadline of the shift has passed with the shift unclaimed and its task over
EscalationOver(sid) ==
    /\ ~ShiftOf(sid).claimed
    /\ ShiftOf(sid).fanout_started_at # NoTime
    /\ now >= Deadline(sid)
    /\ TasksOf(sid) # {}
    /\ \A t \in TasksOf(sid) : ~Pending(t)

\* C23: the step in which an ACCEPT resumes on a shift still unclaimed after its
\* deadline, its escalation task over, returns `claimed` and stores the caregiver as
\* claimed_by; it starts no escalation task and places no call, and no shift ever
\* has a second task.
C23_ClaimAfterDeadline ==
    [][/\ \A m \in BagToSet(messages) :
            (/\ ParseIntent(m.body) = ACCEPT
             /\ m.shift_id \in StoredShifts
             /\ EscalationOver(m.shift_id)
             /\ InboundResume(m)) =>
              /\ message_responses' = Add(message_responses,
                    [status_code |-> 200, status |-> "claimed", shift_id |-> m.shift_id,
                     caregiver_id |-> m.caregiver_id, claimed_at |-> now])
              /\ ShiftOf(m.shift_id)'.claimed
              /\ ShiftOf(m.shift_id)'.claimed_by = m.caregiver_id
              /\ escalations' = escalations
              /\ calls' = calls
       /\ \A sid \in ShiftIds :
            CountIn(escalations', {t \in BagToSet(escalations') : t.shift_id = sid}) <= 1
     ]_vars

\* the task reached the deadline at +10 minutes and ended; an accept handled after
\* that claimed the shift
C23_Witness ==
    \E sid \in StoredShifts :
        /\ ShiftOf(sid).claimed
        /\ ShiftOf(sid).fanout_started_at # NoTime
        /\ ShiftOf(sid).claimed_at >= Deadline(sid)
        /\ \E t \in TasksOf(sid) : t.pc = "fired"
        /\ CountIn(escalations, TasksOf(sid)) = 1
        /\ NumMessageResponses(sid, "claimed") = 1

\* ------------------------------------------------------------------ C24
\* what ends a task at a poll: the shift is gone, or claimed, or the deadline is here
ExitCondition(sid) ==
    \/ sid \notin StoredShifts
    \/ ShiftOf(sid).fanout_started_at = NoTime
    \/ ShiftOf(sid).claimed
    \/ now >= Deadline(sid)

HasPending(sid) == \E t \in TasksOf(sid) : Pending(t)

\* the explored clock has stopped short of the deadline of an unclaimed shift
ClockExhausted(sid) ==
    /\ sid \in StoredShifts
    /\ ~ShiftOf(sid).claimed
    /\ ShiftOf(sid).fanout_started_at # NoTime
    /\ now < Deadline(sid)
    /\ \A d \in TickDeltas : now + d > MaxTime

\* C24: a step of an escalation task (its start, or a poll) ends the task exactly
\* when the shift is absent or has no fanout_started_at, is claimed, or the time is
\* at or past fanout_started_at + 10 minutes; and with the tasks scheduled and the
\* clock advancing, every pending task eventually ends (as far as the explored clock
\* reaches).
C24_TaskTerminates ==
    /\ [][\A task \in BagToSet(escalations) :
            (Pending(task) /\ (EscalationStart(task) \/ EscalationPoll(task))) =>
               \E after \in BagToSet(escalations') :
                  /\ escalations' = Replace(escalations, task, after)
                  /\ after.shift_id = task.shift_id
                  /\ ~Pending(after) <=> ExitCondition(task.shift_id)]_vars
    /\ \A sid \in ShiftIds :
          HasPending(sid) ~> (~HasPending(sid) \/ ClockExhausted(sid))

\* a task slept through the window, found the deadline reached with the shift
\* unclaimed and ended
C24_Witness ==
    \E sid \in StoredShifts :
        /\ ~ShiftOf(sid).claimed
        /\ \E t \in TasksOf(sid) :
              /\ t.pc = "fired"
              /\ t.current_time >= Deadline(sid)
        /\ messages = EmptyBag
        /\ fanouts = EmptyBag

\* ------------------------------------------------------------------ C25
\* the handler frames a step has added
NewMessages == {f \in BagToSet(messages') : CopiesIn(f, messages') > CopiesIn(f, messages)}

\* C25: a handler that goes on past the lookups holds the id of a stored caregiver
\* whose phone is the sender's, and a step that sets a shift's claimed_by is the
\* resumption of such a handler with an ACCEPT and stores that handler's caregiver
\* id; so claimed_by, when set, is the id of a stored caregiver.
C25_ClaimerFromRoster ==
    [][/\ \A f \in NewMessages :
            \A p \in Phones :
                InboundStart(p, f.body, f.shift_id) =>
                    /\ f.caregiver_id \in Roster
                    /\ database[CaregiverKey(f.caregiver_id)].phone = p
       /\ \A f \in BagToSet(messages) : f.caregiver_id \in Roster
       /\ \A sid \in StoredShifts :
            ShiftOf(sid)'.claimed_by # ShiftOf(sid).claimed_by =>
               /\ ShiftOf(sid)'.claimed_by \in Roster
               /\ \E m \in BagToSet(messages) :
                     /\ InboundResume(m)
                     /\ ParseIntent(m.body) = ACCEPT
                     /\ m.shift_id = sid
                     /\ m.caregiver_id = ShiftOf(sid)'.claimed_by
     ]_vars

\* of two stored caregivers who accepted, the one whose handler resumed first holds
\* the shift, and the `claimed` response names that caregiver
C25_Witness ==
    \E sid \in StoredShifts :
        /\ ShiftOf(sid).claimed_by = "eve-id"
        /\ "alice-id" \in Roster
        /\ NumMessageResponses(sid, "already_claimed") = 1
        /\ \A r \in MessageResponses(sid, "claimed") : r.caregiver_id = "eve-id"

\* ------------------------------------------------------------------ C26
\* C26: a step of fanout_shift changes nothing in the store but fanout_started_at of
\* the shift it was called for: that shift's claimed, claimed_by, claimed_at and
\* declined_caregiver_ids, the other shift and every caregiver are as before, also
\* when that shift was claimed before the call; the steps after the write (the
\* sends, the return) leave the store alone.
C26_FanoutWritesOnlyTimestamp ==
    [][/\ \A s \in StoredShifts :
            FanoutStart(s) =>
                database' = [database EXCEPT ![ShiftKey(s)].fanout_started_at =
                                ShiftOf(s)'.fanout_started_at]
       /\ \A f \in BagToSet(fanouts) :
            (FanoutFinish(f) \/ \E c \in f.pending : SendSms(f, c)) =>
                database' = database
     ]_vars

\* the store holds two shifts: one was claimed and only later fanned out, and keeps
\* its claim; the other holds a decline and has not been fanned out
C26_Witness ==
    /\ StoredShifts = ShiftIds
    /\ \E sid \in StoredShifts :
          /\ ShiftOf(sid).claimed
          /\ ShiftOf(sid).claimed_by \in Roster
          /\ ShiftOf(sid).claimed_at < ShiftOf(sid).fanout_started_at
          /\ StartedResponses(sid) # {}
          /\ \E other \in StoredShifts \ {sid} :
                /\ Len(Declined(other)) = 1
                /\ ShiftOf(other).fanout_started_at = NoTime
                /\ ~ShiftOf(other).claimed
====
